---- MODULE Spec2Model ----
(***************************************************************************)
(* SpaceAce: three LangChain agents (weather.py, astros.py, iss_locator.py) *)
(* whose tools fetch JSON over HTTP with a fixed retry loop.                *)
(*                                                                          *)
(* The model covers the tool functions, the input parser and the three      *)
(* retry loops.  A tool invocation is one process p: Invoke runs the tool   *)
(* function up to its first requests.get (or to its return / its uncaught   *)
(* exception), Get is one requests.get + raise_for_status + json, Sleep is  *)
(* the time.sleep(2) of the except branch followed by the loop test.        *)
(*                                                                          *)
(* JSON values are tagged records: [t |-> "dict", d |-> mapping],           *)
(* [t |-> "list"], [t |-> "num"], [t |-> "null"], [t |-> "str"].  A Python  *)
(* str handed to a tool is [t |-> "text", json |-> v], v being what         *)
(* json.loads makes of it, or [t |-> "invalid"] when json.loads raises      *)
(* JSONDecodeError.                                                         *)
(***************************************************************************)
EXTENDS Integers, Sequences, FiniteSets, TLC

VARIABLES
    WEATHER_API_KEY,  \* module global of weather.py, read from the environment
    tool,             \* tool[p]: name of the tool p is invoking
    raw,              \* raw[p]: the caller's argument as it was handed to the tool
    input_object,     \* input_object[p]: the caller's argument object as it is now
    pc,               \* pc[p]: "idle", "get", "sleep" or "done"
    endpoint,         \* endpoint[p]: fetch_data's endpoint argument
    url,              \* url[p]: the URL of the GET
    params,           \* params[p]: the params mapping handed to requests.get
    attempt,          \* attempt[p]: loop variable of the retry loop
    result,           \* result[p]: what the tool function returned or raised
    log,              \* log[p]: GETs and sleeps of the current invocation, in order
    calls,            \* calls[p]: invocations p has started
    exhausted_before  \* exhausted_before[p]: an earlier invocation of p ran out of attempts

vars == <<WEATHER_API_KEY, tool, raw, input_object, pc, endpoint, url, params,
          attempt, result, log, calls, exhausted_before>>

----------------------------------------------------------------------------
(* Bounds *)

NumProcs == 2
MaxCalls == 2

Procs == 1..NumProcs
\* The sequential specification runs one caller; the others stay idle.
SeqProcs == {1}

----------------------------------------------------------------------------
(* Program constants *)

WeatherAPI_retries == 3
Astros_retries == 3
ISSLocator_retries == 3

BASE_API_URL == "https://api.weatherapi.com/v1"
ASTROS_API_URL == "http://api.open-notify.org/astros.json"
ISS_API_URL == "http://api.open-notify.org/iss-now.json"

\* os.getenv returns None for an unset variable.
None == "<None>"
ApiKey == "secret-key"

WeatherTools == {"fetch_weather", "fetch_forecast", "fetch_history",
                 "fetch_marine", "fetch_timezone", "fetch_astronomy"}
ToolNames == WeatherTools \cup {"get_astros_tool", "get_iss_location_tool"}

----------------------------------------------------------------------------
(* Values *)

Dict(m) == [t |-> "dict", d |-> m]
ErrorDict(msg) == Dict([error |-> msg])

Keys == {"latitude", "longitude", "date", "days", "error"}
FullMappings == [latitude : {"", "23.5"}, longitude : {"", "-45.3"},
                 date : {"", "2023-01-01"}, days : {5}, error : {"boom"}]
Mappings == { [k \in K |-> f[k]] : f \in FullMappings, K \in SUBSET Keys }

NonMappings == { [t |-> "list"], [t |-> "num"], [t |-> "null"] }
\* What json.loads can return: any JSON value, a string included.
JsonValues == { Dict(m) : m \in Mappings } \cup NonMappings \cup { [t |-> "str"] }
Invalid == [t |-> "invalid"]
Text(v) == [t |-> "text", json |-> v]

\* What the agent can hand to a tool: a str (JSON or not) or an object.
RawInputs == { Text(v) : v \in JsonValues \cup {Invalid} }
             \cup { Dict(m) : m \in Mappings } \cup NonMappings

\* Outcomes of one requests.get + raise_for_status + response.json.
Payloads == { Dict([location |-> "Test", temp_c |-> "24"]),
              Dict([error |-> "remote"]) }
\* "status" is a non-2xx answer: 401 stands for the 4xx codes (it is what the
\* weather service answers to a request without a valid key), 500 for the 5xx.
Responses == { [kind |-> "ok", body |-> b] : b \in Payloads }
             \cup { [kind |-> "status", code |-> c] : c \in {401, 500} }
             \cup { [kind |-> "transport"], [kind |-> "badjson"] }

NoResult == [k |-> "none"]
Return(v) == [k |-> "return", val |-> v]
Raise(exc, arg) == [k |-> "raise", exc |-> exc, arg |-> arg]
Fetch(e, u, ps) == [k |-> "fetch", endpoint |-> e, url |-> u, params |-> ps]

NoParams == <<>>

----------------------------------------------------------------------------
(* weather.py: the input parser *)

isinstance_str(x) == x.t = "text"
isinstance_dict(x) == x.t = "dict"

\* json.loads: the decoded value; Invalid stands for JSONDecodeError raised.
json_loads(text) == text.json

\* Mutant: the two error messages swapped.
parse_input_swapped(input_data) ==
    LET parsed == IF isinstance_str(input_data) THEN json_loads(input_data)
                  ELSE input_data
    IN  IF parsed = Invalid THEN ErrorDict("Invalid input format. Expected JSON object.")
        ELSE IF ~isinstance_dict(parsed) THEN ErrorDict("Invalid JSON format.")
        ELSE parsed

\* Mutant: no isinstance(dict) test, a non-mapping passes as an empty mapping.
parse_input_no_shape_test(input_data) ==
    LET parsed == IF isinstance_str(input_data) THEN json_loads(input_data)
                  ELSE input_data
    IN  IF parsed = Invalid THEN ErrorDict("Invalid JSON format.")
        ELSE IF ~isinstance_dict(parsed) THEN Dict(<<>>)
        ELSE parsed

parse_input(input_data) ==
    LET parsed == IF isinstance_str(input_data) THEN json_loads(input_data)
                  ELSE input_data
    IN  IF parsed = Invalid THEN ErrorDict("Invalid JSON format.")
        ELSE IF ~isinstance_dict(parsed)
             THEN ErrorDict("Invalid input format. Expected JSON object.")
        ELSE parsed

----------------------------------------------------------------------------
(* weather.py: class WeatherAPI *)

\* f"{latitude},{longitude}"
q_string(latitude, longitude) == latitude \o "," \o longitude

\* Mutant: the client refuses to work without a key.
fetch_data_requires_key(e, ps, api_key) ==
    IF api_key = None THEN Raise("ValueError", "api_key")
    ELSE Fetch(e, BASE_API_URL \o "/" \o e \o ".json", [key |-> api_key] @@ ps)

\* fetch_data up to the retry loop: the URL and params["key"] = self.api_key.
fetch_data(e, ps, api_key) ==
    Fetch(e, BASE_API_URL \o "/" \o e \o ".json", [key |-> api_key] @@ ps)

\* fetch_data's last line, after the loop.
fetch_data_exhausted(e) ==
    ErrorDict("Failed to fetch data from " \o e \o " after multiple attempts.")

get_weather(latitude, longitude, api_key) ==
    fetch_data("current", [q |-> q_string(latitude, longitude)], api_key)

get_forecast(latitude, longitude, days, api_key) ==
    fetch_data("forecast", [q |-> q_string(latitude, longitude), days |-> days], api_key)

get_history(latitude, longitude, date, api_key) ==
    fetch_data("history", [q |-> q_string(latitude, longitude), dt |-> date], api_key)

\* Mutant: the marine query sent to the current-weather endpoint.
get_marine_wrong_endpoint(latitude, longitude, api_key) ==
    fetch_data("current", [q |-> q_string(latitude, longitude)], api_key)

get_marine(latitude, longitude, api_key) ==
    fetch_data("marine", [q |-> q_string(latitude, longitude)], api_key)

get_timezone(latitude, longitude, api_key) ==
    fetch_data("timezone", [q |-> q_string(latitude, longitude)], api_key)

get_astronomy(latitude, longitude, date, api_key) ==
    fetch_data("astronomy", [q |-> q_string(latitude, longitude), dt |-> date], api_key)

----------------------------------------------------------------------------
(* weather.py: the tool functions.  api_key is WEATHER_API_KEY as read by   *)
(* WeatherAPI() when the function constructs its client.  d[k] on a dict    *)
(* without k raises KeyError(k); Python evaluates the arguments of a call   *)
(* left to right.                                                           *)

has(m, k) == k \in DOMAIN m.d

\* input_data.get("days", 3)
dict_get(m, k, default) == IF has(m, k) THEN m.d[k] ELSE default

\* Mutant: only parse_input's own two error objects are passed back, a
\* caller's mapping with an "error" key goes on to the lookup.
get_current_weather_own_errors_only(input_data, api_key) ==
    LET m == parse_input(input_data)
    IN  IF m \in {ErrorDict("Invalid JSON format."),
                  ErrorDict("Invalid input format. Expected JSON object.")}
        THEN Return(m)
        ELSE IF ~has(m, "latitude") THEN Raise("KeyError", "latitude")
        ELSE IF ~has(m, "longitude") THEN Raise("KeyError", "longitude")
        ELSE get_weather(m.d.latitude, m.d.longitude, api_key)

get_current_weather(input_data, api_key) ==
    LET m == parse_input(input_data)
    IN  IF has(m, "error") THEN Return(m)
        ELSE IF ~has(m, "latitude") THEN Raise("KeyError", "latitude")
        ELSE IF ~has(m, "longitude") THEN Raise("KeyError", "longitude")
        ELSE get_weather(m.d.latitude, m.d.longitude, api_key)

\* Mutant: the supplied days ignored, the default always sent.
get_forecast_weather_default_days(input_data, api_key) ==
    LET m == parse_input(input_data)
    IN  IF has(m, "error") THEN Return(m)
        ELSE IF ~has(m, "latitude") THEN Raise("KeyError", "latitude")
        ELSE IF ~has(m, "longitude") THEN Raise("KeyError", "longitude")
        ELSE get_forecast(m.d.latitude, m.d.longitude, 3, api_key)

get_forecast_weather(input_data, api_key) ==
    LET m == parse_input(input_data)
    IN  IF has(m, "error") THEN Return(m)
        ELSE IF ~has(m, "latitude") THEN Raise("KeyError", "latitude")
        ELSE IF ~has(m, "longitude") THEN Raise("KeyError", "longitude")
        ELSE get_forecast(m.d.latitude, m.d.longitude, dict_get(m, "days", 3), api_key)

get_historical_weather(input_data, api_key) ==
    LET m == parse_input(input_data)
    IN  IF has(m, "error") THEN Return(m)
        ELSE IF ~has(m, "date") THEN Return(ErrorDict("Missing 'date' field."))
        ELSE IF ~has(m, "latitude") THEN Raise("KeyError", "latitude")
        ELSE IF ~has(m, "longitude") THEN Raise("KeyError", "longitude")
        ELSE get_history(m.d.latitude, m.d.longitude, m.d.date, api_key)

get_marine_weather(input_data, api_key) ==
    LET m == parse_input(input_data)
    IN  IF has(m, "error") THEN Return(m)
        ELSE IF ~has(m, "latitude") THEN Raise("KeyError", "latitude")
        ELSE IF ~has(m, "longitude") THEN Raise("KeyError", "longitude")
        ELSE get_marine(m.d.latitude, m.d.longitude, api_key)

get_timezone_info(input_data, api_key) ==
    LET m == parse_input(input_data)
    IN  IF has(m, "error") THEN Return(m)
        ELSE IF ~has(m, "latitude") THEN Raise("KeyError", "latitude")
        ELSE IF ~has(m, "longitude") THEN Raise("KeyError", "longitude")
        ELSE get_timezone(m.d.latitude, m.d.longitude, api_key)

\* Mutant: no test for the date field.
get_astronomy_info_no_date_test(input_data, api_key) ==
    LET m == parse_input(input_data)
    IN  IF has(m, "error") THEN Return(m)
        ELSE IF ~has(m, "latitude") THEN Raise("KeyError", "latitude")
        ELSE IF ~has(m, "longitude") THEN Raise("KeyError", "longitude")
        ELSE IF ~has(m, "date") THEN Raise("KeyError", "date")
        ELSE get_astronomy(m.d.latitude, m.d.longitude, m.d.date, api_key)

get_astronomy_info(input_data, api_key) ==
    LET m == parse_input(input_data)
    IN  IF has(m, "error") THEN Return(m)
        ELSE IF ~has(m, "date") THEN Return(ErrorDict("Missing 'date' field."))
        ELSE IF ~has(m, "latitude") THEN Raise("KeyError", "latitude")
        ELSE IF ~has(m, "longitude") THEN Raise("KeyError", "longitude")
        ELSE get_astronomy(m.d.latitude, m.d.longitude, m.d.date, api_key)

----------------------------------------------------------------------------
(* astros.py and iss_locator.py: the wrappers ignore their argument and     *)
(* GET a fixed URL without params.                                          *)

get_astros(input) == Fetch("astros", ASTROS_API_URL, NoParams)
Astros_exhausted == ErrorDict("Failed to fetch Astros after multiple attempts.")

get_iss_location(input) == Fetch("iss", ISS_API_URL, NoParams)
ISSLocator_exhausted == ErrorDict("Failed to fetch ISS location after multiple attempts.")

----------------------------------------------------------------------------
(* The tools lists: Tool(name=..., func=...) *)

ToolFunc(t, input, api_key) ==
    CASE t = "fetch_weather"         -> get_current_weather(input, api_key)
      [] t = "fetch_forecast"        -> get_forecast_weather(input, api_key)
      [] t = "fetch_history"         -> get_historical_weather(input, api_key)
      [] t = "fetch_marine"          -> get_marine_weather(input, api_key)
      [] t = "fetch_timezone"        -> get_timezone_info(input, api_key)
      [] t = "fetch_astronomy"       -> get_astronomy_info(input, api_key)
      [] t = "get_astros_tool"       -> get_astros(input)
      [] t = "get_iss_location_tool" -> get_iss_location(input)

\* Mutant: the client methods hand the caller's own mapping to fetch_data.
fetch_data_params_object_input_data(t) == "input_data"

\* The object get_weather .. get_astronomy hand to fetch_data as params, the
\* one params["key"] = self.api_key writes into: a dict literal built in
\* the call.
fetch_data_params_object(t) == "literal"

\* The caller's argument object once the tool function has run.  parse_input
\* rebinds its local name and returns a dict argument itself (a str is
\* immutable, json.loads builds a new object); the only write of the call
\* is fetch_data's params["key"] = self.api_key.
input_data_after(t, input, api_key) ==
    IF /\ ToolFunc(t, input, api_key).k = "fetch"
       /\ t \in WeatherTools
       /\ isinstance_dict(input)
       /\ fetch_data_params_object(t) = "input_data"
    THEN Dict([key |-> api_key] @@ input.d)
    ELSE input

\* Mutant: one iteration too many.
retries_one_more(t) == WeatherAPI_retries + 1

\* retries of the loop the tool's fetcher runs
retries(t) ==
    CASE t = "get_astros_tool"       -> Astros_retries
      [] t = "get_iss_location_tool" -> ISSLocator_retries
      [] OTHER                       -> WeatherAPI_retries

\* the value returned after the loop
exhausted(t, e) ==
    CASE t = "get_astros_tool"       -> Astros_exhausted
      [] t = "get_iss_location_tool" -> ISSLocator_exhausted
      [] OTHER                       -> fetch_data_exhausted(e)

----------------------------------------------------------------------------
(* The retry loop of fetch_data, Astros.get_astros and                      *)
(* ISSLocator.get_location                                                  *)

\* The try block ends without a RequestException: a 2xx response whose body
\* decodes.  A transport error (requests.get), a non-2xx status
\* (raise_for_status) and a 2xx body that is not JSON (response.json raises
\* requests.exceptions.JSONDecodeError) are RequestExceptions.
try_succeeds(resp) == resp.kind = "ok"

\* Mutant: response.text returned in place of the decoded body.
response_json_as_text(resp) == Return([t |-> "str"])

\* return response.json()
response_json(resp) == Return(resp.body)

GetEvent(u, ps, resp) == [ev |-> "get", url |-> u, params |-> ps, resp |-> resp]
SleepEvent == [ev |-> "sleep"]

\* Mutant: the retry follows at once, time.sleep left out.
except_branch_no_sleep(lg) == lg

\* except RequestException: logging.error(...); time.sleep(2)
except_branch(lg) == Append(lg, SleepEvent)

\* Mutant: the counter kept on a shared object, a call after an exhausted one
\* starts where that one stopped.
loop_start_spent(p) == IF exhausted_before[p] THEN WeatherAPI_retries - 1 ELSE 0

\* for attempt in range(retries): the first value, in every call.
loop_start(p) == 0

\* Mutant: while True in place of the bounded range.
loop_continues_forever(a, t) == a + 1 < retries(t) \/ a + 1 >= retries(t)

\* for attempt in range(retries): is there another iteration after `a`?
loop_continues(a, t) == a + 1 < retries(t)

----------------------------------------------------------------------------
(* Actions *)

Init ==
    /\ WEATHER_API_KEY \in {ApiKey, None}
    /\ tool = [p \in Procs |-> "none"]
    /\ raw = [p \in Procs |-> [t |-> "null"]]
    /\ input_object = [p \in Procs |-> [t |-> "null"]]
    /\ pc = [p \in Procs |-> "idle"]
    /\ endpoint = [p \in Procs |-> ""]
    /\ url = [p \in Procs |-> ""]
    /\ params = [p \in Procs |-> NoParams]
    /\ attempt = [p \in Procs |-> 0]
    /\ result = [p \in Procs |-> NoResult]
    /\ log = [p \in Procs |-> <<>>]
    /\ calls = [p \in Procs |-> 0]
    /\ exhausted_before = [p \in Procs |-> FALSE]

\* The agent calls tool t with input: the tool function runs up to its
\* return, its uncaught exception, or the first iteration of the retry loop.
\* Every call has fresh locals.
InvokeWith(p, tools, inputs, max) ==
    /\ pc[p] = "idle"
    /\ calls[p] < max
    /\ \E t \in tools, input \in inputs :
        LET r == ToolFunc(t, input, WEATHER_API_KEY)
            f == r.k = "fetch"
        IN  /\ tool' = [tool EXCEPT ![p] = t]
            /\ raw' = [raw EXCEPT ![p] = input]
            /\ input_object' = [input_object EXCEPT ![p] =
                                   input_data_after(t, input, WEATHER_API_KEY)]
            /\ pc' = [pc EXCEPT ![p] = IF f THEN "get" ELSE "done"]
            /\ endpoint' = [endpoint EXCEPT ![p] = IF f THEN r.endpoint ELSE ""]
            /\ url' = [url EXCEPT ![p] = IF f THEN r.url ELSE ""]
            /\ params' = [params EXCEPT ![p] = IF f THEN r.params ELSE NoParams]
            /\ result' = [result EXCEPT ![p] = IF f THEN NoResult ELSE r]
    /\ attempt' = [attempt EXCEPT ![p] = loop_start(p)]
    /\ log' = [log EXCEPT ![p] = <<>>]
    /\ calls' = [calls EXCEPT ![p] = @ + 1]
    /\ UNCHANGED <<WEATHER_API_KEY, exhausted_before>>

Invoke(p) == InvokeWith(p, ToolNames, RawInputs, MaxCalls)

\* Mutant: a client error (4xx) is taken as final, the fetch gives up at once.
GetWith_client_error_final(p, responses) ==
    /\ pc[p] = "get"
    /\ \E resp \in responses :
        /\ log' = [log EXCEPT ![p] = Append(@, GetEvent(url[p], params[p], resp))]
        /\ IF try_succeeds(resp)
           THEN /\ result' = [result EXCEPT ![p] = response_json(resp)]
                /\ pc' = [pc EXCEPT ![p] = "done"]
           ELSE IF resp.kind = "status" /\ resp.code \in 400..499
           THEN /\ result' = [result EXCEPT ![p] =
                                  Return(exhausted(tool[p], endpoint[p]))]
                /\ pc' = [pc EXCEPT ![p] = "done"]
           ELSE /\ pc' = [pc EXCEPT ![p] = "sleep"]
                /\ UNCHANGED result
    /\ UNCHANGED <<WEATHER_API_KEY, tool, raw, endpoint, url, params, attempt, calls,
                   exhausted_before, input_object>>

\* One pass of the try block: requests.get(url, params, timeout=5),
\* raise_for_status, return response.json().
GetWith(p, responses) ==
    /\ pc[p] = "get"
    /\ \E resp \in responses :
        /\ log' = [log EXCEPT ![p] = Append(@, GetEvent(url[p], params[p], resp))]
        /\ IF try_succeeds(resp)
           THEN /\ result' = [result EXCEPT ![p] = response_json(resp)]
                /\ pc' = [pc EXCEPT ![p] = "done"]
           ELSE /\ pc' = [pc EXCEPT ![p] = "sleep"]
                /\ UNCHANGED result
    /\ UNCHANGED <<WEATHER_API_KEY, tool, raw, endpoint, url, params, attempt, calls,
                   exhausted_before, input_object>>

Get(p) == GetWith(p, Responses)

\* Mutant: the attempt counter is one shared object, every caller's count
\* moves when one caller retries.
Sleep_shared_counter(p) ==
    /\ pc[p] = "sleep"
    /\ log' = [log EXCEPT ![p] = except_branch(@)]
    /\ IF loop_continues(attempt[p], tool[p])
       THEN /\ attempt' = [q \in Procs |-> attempt[q] + 1]
            /\ pc' = [pc EXCEPT ![p] = "get"]
            /\ UNCHANGED result
       ELSE /\ result' = [result EXCEPT ![p] = Return(exhausted(tool[p], endpoint[p]))]
            /\ pc' = [pc EXCEPT ![p] = "done"]
            /\ UNCHANGED attempt
    /\ UNCHANGED <<WEATHER_API_KEY, tool, raw, endpoint, url, params, calls,
                   exhausted_before, input_object>>

\* Mutant: no delay after the last failed attempt, the error is returned at
\* once.
Sleep_no_final_delay(p) ==
    /\ pc[p] = "sleep"
    /\ IF loop_continues(attempt[p], tool[p])
       THEN /\ log' = [log EXCEPT ![p] = except_branch(@)]
            /\ attempt' = [attempt EXCEPT ![p] = @ + 1]
            /\ pc' = [pc EXCEPT ![p] = "get"]
            /\ UNCHANGED result
       ELSE /\ result' = [result EXCEPT ![p] = Return(exhausted(tool[p], endpoint[p]))]
            /\ pc' = [pc EXCEPT ![p] = "done"]
            /\ UNCHANGED <<attempt, log>>
    /\ UNCHANGED <<WEATHER_API_KEY, tool, raw, endpoint, url, params, calls,
                   exhausted_before, input_object>>

\* The except branch: logging.error, time.sleep(2), then the next iteration
\* or, the range exhausted, the error return after the loop.
Sleep(p) ==
    /\ pc[p] = "sleep"
    /\ log' = [log EXCEPT ![p] = except_branch(@)]
    /\ IF loop_continues(attempt[p], tool[p])
       THEN /\ attempt' = [attempt EXCEPT ![p] = @ + 1]
            /\ pc' = [pc EXCEPT ![p] = "get"]
            /\ UNCHANGED result
       ELSE /\ result' = [result EXCEPT ![p] = Return(exhausted(tool[p], endpoint[p]))]
            /\ pc' = [pc EXCEPT ![p] = "done"]
            /\ UNCHANGED attempt
    /\ UNCHANGED <<WEATHER_API_KEY, tool, raw, endpoint, url, params, calls,
                   exhausted_before, input_object>>

\* The loop ran out: the last thing the fetch did was the sleep after its
\* last failed attempt.
RanOut(p) == log[p] # <<>> /\ log[p][Len(log[p])].ev = "sleep"

\* The tool function's value (or exception) has reached the agent executor;
\* nothing of the call outlives it.  exhausted_before only records how the
\* call ended; no action reads it.
Deliver(p) ==
    /\ pc[p] = "done"
    /\ tool' = [tool EXCEPT ![p] = "none"]
    /\ raw' = [raw EXCEPT ![p] = [t |-> "null"]]
    /\ input_object' = [input_object EXCEPT ![p] = [t |-> "null"]]
    /\ pc' = [pc EXCEPT ![p] = "idle"]
    /\ endpoint' = [endpoint EXCEPT ![p] = ""]
    /\ url' = [url EXCEPT ![p] = ""]
    /\ params' = [params EXCEPT ![p] = NoParams]
    /\ attempt' = [attempt EXCEPT ![p] = 0]
    /\ result' = [result EXCEPT ![p] = NoResult]
    /\ log' = [log EXCEPT ![p] = <<>>]
    /\ exhausted_before' = [exhausted_before EXCEPT ![p] = @ \/ RanOut(p)]
    /\ UNCHANGED <<WEATHER_API_KEY, calls>>

Next == \E p \in SeqProcs : Invoke(p) \/ Get(p) \/ Sleep(p) \/ Deliver(p)

Spec == Init /\ [][Next]_vars

----------------------------------------------------------------------------
(* Callers in parallel: every process of Procs invokes tools, their steps   *)
(* interleaved.  A smaller choice of tools, inputs and responses keeps the  *)
(* product of the callers' states small.                                    *)

MaxParCalls == 1

ParTools == {"fetch_forecast", "get_astros_tool"}
ParInputs == { Dict([latitude |-> "23.5", longitude |-> "-45.3", days |-> 5]) }
ParResponses == { [kind |-> "ok", body |-> Dict([location |-> "Test", temp_c |-> "24"])],
                  [kind |-> "transport"] }

InvokePar(p) == InvokeWith(p, ParTools, ParInputs, MaxParCalls)
GetPar(p) == GetWith(p, ParResponses)

InitPar == Init /\ WEATHER_API_KEY = ApiKey

NextPar == \E p \in Procs : InvokePar(p) \/ GetPar(p) \/ Sleep(p) \/ Deliver(p)

SpecPar == InitPar /\ [][NextPar]_vars

----------------------------------------------------------------------------
(* One caller under fairness: requests.get is called with timeout=5 and     *)
(* time.sleep(2) returns, so a pending attempt and a pending delay each end *)
(* and the step after it is taken.  Nothing obliges the agent to call a     *)
(* tool or to pick up a result.  One input for each path through the tool   *)
(* functions.                                                               *)

LiveInputs == { Text(Invalid), [t |-> "list"], Dict([error |-> "boom"]),
                Dict([latitude |-> "23.5"]),
                Dict([latitude |-> "23.5", longitude |-> "-45.3"]),
                Text(Dict([latitude |-> "23.5", longitude |-> "-45.3",
                           date |-> "2023-01-01"])) }

InvokeLive(p) == InvokeWith(p, ToolNames, LiveInputs, MaxCalls)

NextLive == \E p \in SeqProcs : InvokeLive(p) \/ Get(p) \/ Sleep(p) \/ Deliver(p)

Fairness == \A p \in SeqProcs : WF_vars(Get(p)) /\ WF_vars(Sleep(p))

SpecLive == Init /\ [][NextLive]_vars /\ Fairness

----------------------------------------------------------------------------
(* Vocabulary of the properties *)

GetsOf(p) == SelectSeq(log[p], LAMBDA e : e.ev = "get")
NumGets(p) == Len(GetsOf(p))
NumSleeps(p) == Len(SelectSeq(log[p], LAMBDA e : e.ev = "sleep"))
EventKinds(p) == [i \in 1..Len(log[p]) |-> log[p][i].ev]

\* The invocation has entered a fetcher's retry loop.
Fetching(p) == url[p] # ""

\* The raw input once parsed if it is textual; [t |-> "invalid"] if it is
\* text that is no JSON.
InputJson(x) == IF x.t = "text" THEN x.json ELSE x
IsMapping(x) == InputJson(x).t = "dict"
InputHas(x, k) == IsMapping(x) /\ k \in DOMAIN InputJson(x).d
InputValue(x, k) == InputJson(x).d[k]

\* The GETs of the invocation that did not end in a 2xx JSON response.
FailedGets(p) == SelectSeq(GetsOf(p), LAMBDA e : e.resp.kind # "ok")
NumFailedGets(p) == Len(FailedGets(p))

Endpoints == {"current", "forecast", "history", "marine", "timezone", "astronomy"}
ExhaustedErrors ==
    { ErrorDict("Failed to fetch data from " \o e \o " after multiple attempts.") :
        e \in Endpoints }
    \cup { ErrorDict("Failed to fetch Astros after multiple attempts."),
           ErrorDict("Failed to fetch ISS location after multiple attempts.") }

MalformedPayload == ErrorDict("Invalid JSON format.")
WrongShape == ErrorDict("Invalid input format. Expected JSON object.")
MissingField(name) == ErrorDict("Missing '" \o name \o "' field.")

LatLonTools == {"fetch_weather", "fetch_forecast", "fetch_marine", "fetch_timezone"}
DateTools == {"fetch_history", "fetch_astronomy"}

----------------------------------------------------------------------------
(* C1: for every fetcher, when every attempt fails with a transport error   *)
(* or a non-2xx status, the call returns the "Failed to fetch ... after     *)
(* multiple attempts" error after exactly 3 GETs; it never makes a fourth.  *)
C1_ExhaustedAfterThree ==
    \A p \in Procs :
        LET g == GetsOf(p)
            allFail == \A i \in 1..Len(g) : g[i].resp.kind \in {"transport", "status"}
        IN  /\ Len(g) <= 3
            /\ (pc[p] = "done" /\ Fetching(p) /\ allFail)
                 => /\ Len(g) = 3
                    /\ result[p].k = "return"
                    /\ result[p].val \in ExhaustedErrors

C1_Witness ==
    \E p \in Procs :
        /\ pc[p] = "done"
        /\ tool[p] = "get_iss_location_tool"
        /\ NumGets(p) = 3
        /\ \A i \in 1..3 : GetsOf(p)[i].resp.kind \in {"transport", "status"}
        /\ result[p] = Return(ErrorDict("Failed to fetch ISS location after multiple attempts."))

(* C2: attempts 1 and 2 fail, attempt 3 gets a 2xx JSON response: the       *)
(* fetch returns the third response's payload after exactly 3 GETs, with    *)
(* one delay between attempts 1 and 2 and one between attempts 2 and 3.     *)
C2_SucceedsOnThird ==
    \A p \in Procs :
        LET g == GetsOf(p)
        IN  (/\ Len(g) >= 3
             /\ g[1].resp.kind # "ok"
             /\ g[2].resp.kind # "ok"
             /\ g[3].resp.kind = "ok")
            => /\ pc[p] = "done"
               /\ result[p] = Return(g[3].resp.body)
               /\ Len(g) = 3
               /\ EventKinds(p) = <<"get", "sleep", "get", "sleep", "get">>

C2_Witness ==
    \E p \in Procs :
        /\ tool[p] = "fetch_weather"
        /\ EventKinds(p) = <<"get", "sleep", "get", "sleep", "get">>
        /\ log[p][1].resp.kind = "transport"
        /\ log[p][3].resp.kind = "status"
        /\ log[p][5].resp.kind = "ok"
        /\ result[p] = Return(log[p][5].resp.body)

(* C3: the GET that receives a 2xx response with a JSON body is the last    *)
(* event of the fetch (no GET and no delay follows it), and the tool        *)
(* function returns that body unchanged.                                    *)
C3_ReturnsOnFirstSuccess ==
    \A p \in Procs :
        \A i \in 1..Len(log[p]) :
            (log[p][i].ev = "get" /\ log[p][i].resp.kind = "ok")
            => /\ i = Len(log[p])
               /\ pc[p] = "done"
               /\ result[p] = Return(log[p][i].resp.body)

C3_Witness ==
    \E p \in Procs :
        /\ tool[p] = "fetch_weather"
        /\ raw[p] = Dict([latitude |-> "23.5", longitude |-> "-45.3"])
        /\ EventKinds(p) = <<"get", "sleep", "get">>
        /\ log[p][3].resp.kind = "ok"
        /\ log[p][3].resp.body = Dict([location |-> "Test", temp_c |-> "24"])
        /\ result[p] = Return(Dict([location |-> "Test", temp_c |-> "24"]))

(* C4: every invocation ends in a returned value, never in an exception     *)
(* that leaves the tool function.                                           *)
C4_NoUncaughtException ==
    \A p \in Procs : pc[p] = "done" => result[p].k = "return"

(* C5: fetch_weather, fetch_forecast, fetch_marine and fetch_timezone,      *)
(* given a mapping with latitude and without longitude, return              *)
(* MissingField("longitude") and make no GET.  Stated on mappings without   *)
(* an "error" key, so that the missing longitude is all that is at issue.   *)
C5_MissingLongitude ==
    \A p \in Procs :
        (/\ pc[p] = "done"
         /\ tool[p] \in LatLonTools
         /\ InputHas(raw[p], "latitude")
         /\ IsMapping(raw[p]) /\ ~InputHas(raw[p], "longitude")
         /\ ~InputHas(raw[p], "error"))
        => /\ result[p] = Return(MissingField("longitude"))
           /\ NumGets(p) = 0

RequiredParams(t) ==
    IF t \in DateTools THEN {"latitude", "longitude", "date"}
    ELSE {"latitude", "longitude"}

(* C9: a weather tool given a mapping in which a required parameter is      *)
(* present with the empty value returns MissingField for such a parameter   *)
(* and makes no GET.  Stated on mappings that hold every required           *)
(* parameter and no "error" key, so that the empty value is all that is at  *)
(* issue.                                                                   *)
C9_EmptyRequiredValue ==
    \A p \in Procs :
        LET req == RequiredParams(tool[p])
            empty == { k \in req : InputHas(raw[p], k) /\ InputValue(raw[p], k) = "" }
        IN  (/\ tool[p] \in WeatherTools
             /\ \A k \in req : InputHas(raw[p], k)
             /\ ~InputHas(raw[p], "error")
             /\ empty # {})
            => /\ NumGets(p) = 0
               /\ pc[p] = "done" => \E k \in empty : result[p] = Return(MissingField(k))

(* C10: every GET of fetch_forecast carries days = 3 when the input mapping *)
(* has no days entry, and the supplied value when it has one.               *)
C10_ForecastDays ==
    \A p \in Procs :
        tool[p] = "fetch_forecast" =>
            \A i \in 1..Len(log[p]) :
                log[p][i].ev = "get" =>
                    /\ "days" \in DOMAIN log[p][i].params
                    /\ log[p][i].params.days =
                          IF InputHas(raw[p], "days") THEN InputValue(raw[p], "days")
                          ELSE 3

C10_Witness ==
    \E p \in Procs :
        /\ tool[p] = "fetch_forecast"
        /\ raw[p] = Text(Dict([latitude |-> "23.5", longitude |-> "-45.3", days |-> 5]))
        /\ NumGets(p) = 2
        /\ GetsOf(p)[1].params.days = 5
        /\ GetsOf(p)[2].params.days = 5
        /\ GetsOf(p)[2].params.q = "23.5,-45.3"

\* The endpoint the claim assigns to each weather capability.
EndpointOf(t) ==
    CASE t = "fetch_weather"   -> "current"
      [] t = "fetch_forecast"  -> "forecast"
      [] t = "fetch_history"   -> "history"
      [] t = "fetch_marine"    -> "marine"
      [] t = "fetch_timezone"  -> "timezone"
      [] t = "fetch_astronomy" -> "astronomy"

QueryKeys(t) ==
    {"key", "q"} \cup (IF t = "fetch_forecast" THEN {"days"} ELSE {})
                 \cup (IF t \in DateTools THEN {"dt"} ELSE {})

(* C11: every GET of a weather capability goes to                           *)
(* BASE_API_URL/<its endpoint>.json with exactly the parameters key,        *)
(* q = "<latitude>,<longitude>", days for forecast only, dt for history and *)
(* astronomy only; every retry sends the same parameters.                   *)
C11_WeatherQuery ==
    \A p \in Procs :
        tool[p] \in WeatherTools =>
            \A i \in 1..Len(log[p]) :
                log[p][i].ev = "get" =>
                    LET ps == log[p][i].params
                    IN  /\ log[p][i].url = BASE_API_URL \o "/" \o EndpointOf(tool[p]) \o ".json"
                        /\ DOMAIN ps = QueryKeys(tool[p])
                        /\ ps.key = WEATHER_API_KEY
                        /\ ps.q = InputValue(raw[p], "latitude") \o ","
                                    \o InputValue(raw[p], "longitude")
                        /\ tool[p] \in DateTools => ps.dt = InputValue(raw[p], "date")
                        /\ ps = GetsOf(p)[1].params

C11_Witness ==
    \E p \in Procs :
        /\ tool[p] = "fetch_history"
        /\ raw[p] = Dict([latitude |-> "23.5", longitude |-> "-45.3", date |-> "2023-01-01"])
        /\ WEATHER_API_KEY = ApiKey
        /\ NumGets(p) = 3
        /\ \A i \in 1..3 :
              /\ GetsOf(p)[i].url = "https://api.weatherapi.com/v1/history.json"
              /\ GetsOf(p)[i].params =
                    [key |-> "secret-key", q |-> "23.5,-45.3", dt |-> "2023-01-01"]

(* C13: whatever the earlier invocations did, an invocation counts its      *)
(* attempts from zero: before each GET the attempts used are the GETs of    *)
(* this invocation, it runs out only after 3 GETs of its own, and a 2xx     *)
(* JSON response to any of them is returned.                                *)
C13_FreshBudget ==
    \A p \in Procs :
        Fetching(p) =>
            /\ pc[p] = "get" => attempt[p] = NumGets(p) /\ NumGets(p) < 3
            /\ (pc[p] = "done" /\ RanOut(p)) => NumGets(p) = 3
            /\ \A i \in 1..Len(log[p]) :
                  (log[p][i].ev = "get" /\ log[p][i].resp.kind = "ok")
                  => result[p] = Return(log[p][i].resp.body)

C13_Witness ==
    \E p \in Procs :
        /\ exhausted_before[p]
        /\ calls[p] = 2
        /\ EventKinds(p) = <<"get", "sleep", "get", "sleep", "get">>
        /\ log[p][5].resp.kind = "ok"
        /\ result[p] = Return(log[p][5].resp.body)

\* What belongs to one invocation.
Local(p) == <<tool[p], raw[p], input_object[p], pc[p], endpoint[p], url[p],
              params[p], attempt[p], result[p], log[p]>>

ResponsesOf(p) == [i \in 1..NumGets(p) |-> GetsOf(p)[i].resp]

(* C14: with invocations running in parallel, every invocation makes at     *)
(* most 3 GETs and counts its own attempts, every GET carries the           *)
(* parameters its own input gives, two finished invocations with the same   *)
(* tool, input and responses have the same result, and no step changes what *)
(* belongs to two invocations.                                              *)
C14_ParallelInvocations ==
    /\ [](\A p \in Procs :
            /\ NumGets(p) <= 3
            /\ pc[p] = "get" => attempt[p] = NumGets(p)
            /\ \A i \in 1..Len(log[p]) :
                  log[p][i].ev = "get" =>
                      IF tool[p] = "fetch_forecast"
                      THEN log[p][i].params =
                              [key |-> WEATHER_API_KEY,
                               q |-> InputValue(raw[p], "latitude") \o ","
                                       \o InputValue(raw[p], "longitude"),
                               days |-> IF InputHas(raw[p], "days")
                                        THEN InputValue(raw[p], "days") ELSE 3]
                      ELSE log[p][i].params = NoParams
            /\ \A q \in Procs :
                  (/\ pc[p] = "done" /\ pc[q] = "done"
                   /\ tool[p] = tool[q] /\ raw[p] = raw[q]
                   /\ ResponsesOf(p) = ResponsesOf(q))
                  => result[p] = result[q])
    /\ [][\A p, q \in Procs :
            p # q => (Local(p)' = Local(p) \/ Local(q)' = Local(q))]_vars

C14_Witness ==
    \E p, q \in Procs :
        /\ p # q
        /\ tool[p] = "get_astros_tool" /\ tool[q] = "fetch_forecast"
        /\ pc[p] = "done" /\ RanOut(p) /\ NumGets(p) = 3
        /\ pc[q] = "done" /\ EventKinds(q) = <<"get", "sleep", "get">>
        /\ result[q] = Return(Dict([location |-> "Test", temp_c |-> "24"]))
        /\ result[p].val \in ExhaustedErrors

(* C15: an attempt that ends in a 4xx or a 5xx status is treated like one   *)
(* that ends in a transport failure: the delay follows, it uses one attempt *)
(* of the budget, and the fetch gives up only after 3 attempts; no kind of  *)
(* failure ends the fetch earlier.                                          *)
C15_UniformRetry ==
    \A p \in Procs :
        Fetching(p) =>
            /\ \A i \in 1..Len(log[p]) :
                  (log[p][i].ev = "get" /\ log[p][i].resp.kind # "ok") =>
                      IF i = Len(log[p])
                      THEN pc[p] = "sleep" /\ attempt[p] = NumGets(p) - 1
                      ELSE log[p][i + 1].ev = "sleep"
            /\ pc[p] = "get" => attempt[p] = NumFailedGets(p) /\ attempt[p] < 3
            /\ (pc[p] = "done" /\ NumFailedGets(p) < 3)
                 => /\ log[p][Len(log[p])].ev = "get"
                    /\ log[p][Len(log[p])].resp.kind = "ok"
            /\ (pc[p] = "done" /\ result[p].val \in ExhaustedErrors)
                 => NumFailedGets(p) = 3

C15_Witness ==
    \E p \in Procs :
        /\ pc[p] = "done"
        /\ NumGets(p) = 3
        /\ GetsOf(p)[1].resp = [kind |-> "status", code |-> 401]
        /\ GetsOf(p)[2].resp = [kind |-> "transport"]
        /\ GetsOf(p)[3].resp = [kind |-> "status", code |-> 500]
        /\ NumSleeps(p) = 3
        /\ result[p].val \in ExhaustedErrors

(* C18: within one fetch a delay is taken after every failed attempt, the   *)
(* last one included: once the except branch has run the delays equal the   *)
(* failed attempts, an exhausted fetch has taken 3 delays before it returns *)
(* its error, and a fetch that succeeds on attempt k has taken k-1 delays.  *)
C18_DelayAfterEveryFailure ==
    \A p \in Procs :
        Fetching(p) =>
            /\ pc[p] \in {"get", "done"} => NumSleeps(p) = NumFailedGets(p)
            /\ pc[p] = "sleep" => NumSleeps(p) = NumFailedGets(p) - 1
            /\ (pc[p] = "done" /\ result[p].val \in ExhaustedErrors)
                 => NumSleeps(p) = 3 /\ log[p][Len(log[p])].ev = "sleep"
            /\ \A k \in 1..3 :
                  (/\ pc[p] = "done"
                   /\ NumGets(p) = k
                   /\ GetsOf(p)[k].resp.kind = "ok")
                  => NumSleeps(p) = k - 1

C18_Witness ==
    \E p \in Procs :
        /\ pc[p] = "done"
        /\ tool[p] = "get_astros_tool"
        /\ EventKinds(p) = <<"get", "sleep", "get", "sleep", "get", "sleep">>
        /\ result[p] = Return(Astros_exhausted)

\* What a caller can see of a returned value: is it an error object?
IsErrorObject(v) == v.t = "dict" /\ "error" \in DOMAIN v.d

(* C16: the result of an invocation that reached the remote service is an   *)
(* error object exactly when the fetch failed: a returned value with an     *)
(* "error" key means no attempt got a 2xx JSON response, one without means  *)
(* the last attempt did.                                                    *)
C16_SuccessXorError ==
    \A p \in Procs :
        (pc[p] = "done" /\ Fetching(p)) =>
            /\ result[p].k = "return"
            /\ IsErrorObject(result[p].val)
                 <=> log[p][Len(log[p])].ev = "sleep"

\* The remote service's answer to a request without a valid key.
Unauthorized == [kind |-> "status", code |-> 401]

(* C17: with WEATHER_API_KEY unset, a weather tool given a mapping with     *)
(* every required parameter (and no "error" key) raises nothing and goes on *)
(* to the GET, which carries key = None; when the service answers every     *)
(* attempt with 401 the tool returns the fetch error object after 3 GETs.   *)
C17_AbsentKey ==
    \A p \in Procs :
        (/\ WEATHER_API_KEY = None
         /\ tool[p] \in WeatherTools
         /\ \A k \in RequiredParams(tool[p]) : InputHas(raw[p], k)
         /\ ~InputHas(raw[p], "error"))
        => /\ Fetching(p)
           /\ result[p].k # "raise"
           /\ pc[p] = "done" => NumGets(p) >= 1
           /\ \A i \in 1..NumGets(p) : GetsOf(p)[i].params.key = None
           /\ (pc[p] = "done" /\ \A i \in 1..NumGets(p) : GetsOf(p)[i].resp = Unauthorized)
                => /\ NumGets(p) = 3
                   /\ result[p] = Return(fetch_data_exhausted(endpoint[p]))

C17_Witness ==
    \E p \in Procs :
        /\ WEATHER_API_KEY = None
        /\ tool[p] = "fetch_weather"
        /\ raw[p] = Dict([latitude |-> "23.5", longitude |-> "-45.3"])
        /\ pc[p] = "done"
        /\ NumGets(p) = 3
        /\ \A i \in 1..3 : GetsOf(p)[i].resp = Unauthorized /\ GetsOf(p)[i].params.key = None
        /\ result[p] = Return(fetch_data_exhausted("current"))

(* C20: a weather tool makes a GET only if the parsed input mapping has no  *)
(* "error" key; a mapping with an "error" key, whatever else it holds, is   *)
(* returned as it is and no GET is made.                                    *)
C20_ErrorKeyShortCircuit ==
    \A p \in Procs :
        tool[p] \in WeatherTools =>
            /\ NumGets(p) >= 1 => (IsMapping(raw[p]) /\ ~InputHas(raw[p], "error"))
            /\ Fetching(p) => (IsMapping(raw[p]) /\ ~InputHas(raw[p], "error"))
            /\ InputHas(raw[p], "error")
                 => /\ pc[p] = "done"
                    /\ result[p] = Return(InputJson(raw[p]))
                    /\ log[p] = <<>>

C20_Witness ==
    \E p \in Procs :
        /\ tool[p] = "fetch_astronomy"
        /\ raw[p] = Text(Dict([latitude |-> "23.5", longitude |-> "-45.3",
                               date |-> "2023-01-01", error |-> "boom"]))
        /\ pc[p] = "done"
        /\ result[p] = Return(Dict([latitude |-> "23.5", longitude |-> "-45.3",
                                    date |-> "2023-01-01", error |-> "boom"]))
        /\ NumGets(p) = 0

(* C19: every invocation of every tool ends.  An invocation that makes no   *)
(* request has its result at once; one that is waiting for an attempt or a  *)
(* delay to end eventually has its result; and no invocation ever makes     *)
(* more than 3 GETs.                                                        *)
C19_Terminates ==
    /\ [](\A p \in Procs :
            /\ NumGets(p) <= 3
            /\ (tool[p] # "none" /\ ~Fetching(p)) => (pc[p] = "done" /\ NumGets(p) = 0)
            /\ pc[p] = "done" => result[p] # NoResult)
    /\ \A p \in Procs : (pc[p] \in {"get", "sleep"}) ~> (pc[p] = "done")

C19_Witness ==
    \E p \in Procs :
        /\ pc[p] = "done"
        /\ tool[p] = "fetch_history"
        /\ NumGets(p) = 3
        /\ GetsOf(p)[3].resp = [kind |-> "badjson"]
        /\ result[p] = Return(fetch_data_exhausted("history"))

====
